---- MODULE Spec2Model ----
(***************************************************************************)
(* Model of the incremental recursive Notion indexer                       *)
(* (services/notion_indexer.py) together with the fetcher it calls         *)
(* (services/notion_reader.py).                                            *)
(*                                                                         *)
(* process_page is modelled statement group by statement group: the        *)
(* recursion is an explicit call stack of frames, only the top frame runs, *)
(* and the chunk writes of the pipeline are futures that complete          *)
(* concurrently with the driver.  The remote source, the three files and   *)
(* the embedding store are the environment.                                *)
(***************************************************************************)
EXTENDS Integers, Sequences, FiniteSets, TLC

\* ------------------------------------------------------------------ bounds
MaxRuns == 2
MaxDepth == 4
MaxEdits == 1
MaxFaults == 2
MaxOtherRuns == 1

\* ------------------------------------------------------- the remote source
Root == "root"
Nodes == {"root", "A", "B"}
NoParent == "None"

\* fullText values: the empty text, a text of one window, a text of two windows
Contents == {"", "short", "long"}

OK == 200
ServerError == 500
Statuses == {OK, ServerError}

\* The child_page blocks of every page: a tree, a duplicated child reference,
\* one id under two parents, and a cycle.
Tree == [n \in Nodes |-> IF n = "root" THEN <<"A", "B">> ELSE <<>>]
Duplicate == [n \in Nodes |-> IF n = "root" THEN <<"A", "A">> ELSE <<>>]
Shared == [n \in Nodes |-> IF n = "root" THEN <<"A", "B">>
                           ELSE IF n = "A" THEN <<"B">> ELSE <<>>]
Cycle == [n \in Nodes |-> IF n = "root" THEN <<"A">>
                          ELSE IF n = "A" THEN <<"root">> ELSE <<>>]
Topologies == {Tree, Duplicate, Shared, Cycle}

\* The sources whose child references form a tree: the root with two leaves,
\* and a chain of three pages
Chain == [n \in Nodes |-> IF n = "root" THEN <<"A">>
                          ELSE IF n = "A" THEN <<"B">> ELSE <<>>]
Trees == {Tree, Chain}

\* The texts of the pages before the first run: a root of one window, a page
\* of two windows and an empty page; Edit reaches the other texts
WithEmptyPage == [n \in Nodes |-> IF n = "root" THEN "short"
                                  ELSE IF n = "A" THEN "long" ELSE ""]
InitialTexts == {WithEmptyPage}

\* ------------------------------------------------------------ pure helpers
\* hashlib.md5(content.encode('utf-8')).hexdigest()
md5(content) ==
    CASE content = "" -> "d41d8cd98f00b204e9800998ecf8427e"
      [] content = "short" -> "4f09daa9d95bcb166a302407a0e0babe"
      [] content = "long" -> "0f5264038205edfb1ac05fbb0e8c5e94"

\* CharacterTextSplitter(chunk_size=1000, chunk_overlap=200).split_text
split_text(content) ==
    CASE content = "" -> <<>>
      [] content = "short" -> <<"short">>
      [] content = "long" -> <<"long[0:1000]", "long[800:]">>

\* process_blocks / get_child_pages on the blocks the request returned:
\* a failed blocks request yields [] and so the empty text and no children.
process_blocks(blocks_status, text_of_page) ==
    IF blocks_status = OK THEN text_of_page ELSE ""

get_child_pages(blocks_status, children_of_page) ==
    IF blocks_status = OK THEN children_of_page ELSE <<>>

\* get_page_blocks: returns the blocks on 200 and [] otherwise, never raises
get_page_blocks_raises(blocks_status) == FALSE

\* get_page_content raises on a non-200 answer to the properties request,
\* or when the nested get_page_blocks raises
get_page_content_raises(page_status, blocks_status) ==
    page_status # OK \/ get_page_blocks_raises(blocks_status)

Failed(status) == IF status # OK THEN 1 ELSE 0

EmptyMap == [x \in {} |-> ""]
Put(map, key, value) ==
    [x \in DOMAIN map \cup {key} |-> IF x = key THEN value ELSE map[x]]

EmptyGraph == [nodes |-> {}, edges |-> {}]
\* nx.DiGraph.add_node(page_id, title=title)
add_node(graph, page_id) == [graph EXCEPT !.nodes = @ \cup {page_id}]
\* An add_edge with its two arguments exchanged
add_edge_reversed(graph, parent_id, page_id) ==
    [nodes |-> graph.nodes \cup {parent_id, page_id},
     edges |-> graph.edges \cup {<<page_id, parent_id>>}]

\* nx.DiGraph.add_edge(parent_id, page_id): adds missing end points too; a
\* DiGraph keeps at most one edge for an ordered pair of nodes
add_edge(graph, parent_id, page_id) ==
    [nodes |-> graph.nodes \cup {parent_id, page_id},
     edges |-> graph.edges \cup {<<parent_id, page_id>>}]

\* A file: whether the path exists, whether its bytes are a whole pickle
\* (torn = not), and the object a pickle.load of it returns
NoFile(empty) == [exists |-> FALSE, torn |-> FALSE, data |-> empty]

\* open(path, 'wb') has truncated the file and pickle.dump has not completed
Truncated(empty) == [exists |-> TRUE, torn |-> TRUE, data |-> empty]

\* ------------------------------------------------------------------- state
VARIABLES
    text,               \* remote source: page id -> fullText
    children,           \* remote source: page id -> child_page block ids
    hash_file,          \* file at hash_store_path
    processed_file,     \* file processed_pages.pkl
    graph_file,         \* file at knowledge_graph_path
    vector_store,       \* embedding store: set of <<page_id, chunk>>
    hash_store,         \* self.hash_store
    processed_pages,    \* self.processed_pages
    knowledge_graph,    \* self.knowledge_graph
    total_pages_found,  \* self.total_pages_found
    pages_processed,    \* self.pages_processed
    run_pc,             \* "idle", "running", "done", "aborted", "crashed"
    stack,              \* frames of process_page, the last one is running
    runs,               \* run() calls started
    edits,              \* edits of the source between runs
    faults,             \* failed requests so far (remote source and embedding store)
    hist,               \* history of the current run
    prev,               \* history of the run before the current one
    chunk_log,          \* every finished chunk write: page, content, index, ok
    ever,               \* all runs: the objects this indexer saved last, the
                        \* runs of an indexer configured with other paths
    agent               \* the chat() call of the orchestrator in progress

source == <<text, children>>
files == <<hash_file, processed_file, graph_file>>
memory == <<hash_store, processed_pages, knowledge_graph>>
counters == <<total_pages_found, pages_processed>>
vars == <<text, children, hash_file, processed_file, graph_file, vector_store,
          hash_store, processed_pages, knowledge_graph, total_pages_found,
          pages_processed, run_pc, stack, runs, edits, faults, hist,
          prev, chunk_log, ever, agent>>

top == stack[Len(stack)]
SetTop(frame) == [stack EXCEPT ![Len(stack)] = frame]
Running(label) == run_pc = "running" /\ stack # <<>> /\ top.pc = label

\* A fresh frame of process_page(page_id, parent_id), before line 85
Frame(page_id, parent_id) ==
    [page_id |-> page_id, parent_id |-> parent_id, pc |-> "fetch",
     full_content |-> "", child_pages |-> <<>>,
     is_new_page |-> FALSE, is_page_modified |-> FALSE,
     is_already_processed |-> FALSE,
     page_status |-> 0, blocks_status |-> 0,
     deleted |-> "no", futures |-> <<>>, errors_logged |-> 0,
     indexed |-> FALSE, i |-> 1]

\* The object that a save of this indexer pickled last
NotSaved(empty) == [valid |-> FALSE, data |-> empty]
Saved(object) == [valid |-> TRUE, data |-> object]

\* (parent, child) pairs of ids, and how often a list of child pages names
\* an id from position i on
Pairs == Nodes \X Nodes
Occurrences(child_pages, i, id) ==
    Cardinality({k \in DOMAIN child_pages : k >= i /\ child_pages[k] = id})

NoHist ==
    [visits |-> [n \in Nodes |-> 0], declared |-> {}, fetched |-> EmptyMap,
     indexed |-> EmptyMap, completed |-> {}, deletes |-> [n \in Nodes |-> 0],
     adds |-> [n \in Nodes |-> 0], cause |-> "none", clean |-> TRUE,
     observed |-> {}, reobserved |-> {}, chunked |-> {}, seen |-> {},
     uncalled |-> [pr \in Pairs |-> 0],
     text |-> [n \in Nodes |-> ""],
     hash_store |-> EmptyMap, knowledge_graph |-> EmptyGraph]

\* What is kept of the run before the current one, when it completed
NoPrev ==
    [valid |-> FALSE, clean |-> FALSE, text |-> [n \in Nodes |-> ""],
     fetched |-> EmptyMap, seen |-> {},
     hash_store |-> EmptyMap, knowledge_graph |-> EmptyGraph]

\* ------------------------------------------------------- the agent layer
\* search_results[:3] of search_node, and max_results of NotionSearchTool
TopResults == 3

\* What a tool returns, a string: json.dumps of a value, or an error text
json_dumps(value) == [json |-> TRUE, value |-> value]
ErrorText(message) == [json |-> FALSE, value |-> message]
\* json.loads raises on a string that is not JSON
json_loads_raises(string) == ~string.json
json_loads(string) == string.value

NoOutput == ErrorText("")

\* No chat() call is in progress
AgentIdle ==
    [pc |-> "idle", search_output |-> NoOutput, reads |-> <<>>,
     search_results |-> <<>>, notion_context |-> EmptyMap, status |-> "READY",
     chat_agent_invoked |-> FALSE, reply |-> "none"]

InitOn(topologies) ==
    /\ text \in InitialTexts
    /\ children \in topologies
    /\ hash_file = NoFile(EmptyMap)
    /\ processed_file = NoFile({})
    /\ graph_file = NoFile(EmptyGraph)
    /\ vector_store = {}
    /\ hash_store = EmptyMap
    /\ processed_pages = {}
    /\ knowledge_graph = EmptyGraph
    /\ total_pages_found = 0
    /\ pages_processed = 0
    /\ run_pc = "idle"
    /\ stack = <<>>
    /\ runs = 0
    /\ edits = 0
    /\ faults = 0
    /\ hist = NoHist
    /\ prev = NoPrev
    /\ chunk_log = {}
    /\ ever = [saved_hash_store |-> NotSaved(EmptyMap),
               saved_processed_pages |-> NotSaved({}),
               saved_knowledge_graph |-> NotSaved(EmptyGraph),
               other_runs |-> 0]
    /\ agent = AgentIdle

Init == InitOn(Topologies)

\* ------------------------------------------------- NotionIndexer.__init__
\* A new indexer on the same paths (a process start): lines 33-48
Construct ==
    /\ run_pc # "running"
    /\ ~hash_file.torn /\ ~graph_file.torn
    /\ total_pages_found' = 0
    /\ pages_processed' = 0
    /\ processed_pages' = {}
    /\ hash_store' = IF hash_file.exists THEN hash_file.data ELSE EmptyMap
    /\ knowledge_graph' = IF graph_file.exists THEN graph_file.data ELSE EmptyGraph
    /\ run_pc' = IF run_pc = "crashed" THEN "idle" ELSE run_pc
    /\ UNCHANGED <<source, files, vector_store, stack, runs, edits, faults,
                   hist, prev, chunk_log, ever, agent>>

\* lines 39-46 on a file that is not a whole pickle: pickle.load raises and
\* no indexer is constructed
ConstructRaises ==
    /\ run_pc # "running"
    /\ hash_file.torn \/ graph_file.torn
    /\ run_pc' = "crashed"
    /\ hist' = [hist EXCEPT !.cause = "load"]
    /\ UNCHANGED <<source, files, vector_store, memory, counters, stack, runs,
                   edits, faults, prev, chunk_log, ever, agent>>

\* The environment edits one page of the source between two runs
Edit ==
    /\ run_pc # "running"
    /\ runs >= 1
    /\ edits < MaxEdits
    /\ \E n \in Nodes, c \in Contents :
        /\ c # text[n]
        /\ text' = [text EXCEPT ![n] = c]
    /\ edits' = edits + 1
    /\ UNCHANGED <<faults, children, files, vector_store, memory, counters, run_pc,
                   stack, runs, hist, prev, chunk_log, ever, agent>>

\* ------------------------------------------------------ NotionIndexer.run
\* load_processed_pages: the file replaces the set only when it exists
load_processed_pages(file, current) == IF file.exists THEN file.data ELSE current

\* run, lines 156-160, up to the call of process_page(root_page_id)
RunStart ==
    /\ run_pc \notin {"running", "crashed"}
    /\ runs < MaxRuns
    /\ ~processed_file.torn
    /\ processed_pages' = load_processed_pages(processed_file, processed_pages)
    /\ total_pages_found' = 1
    /\ pages_processed' = 0
    /\ stack' = <<Frame(Root, NoParent)>>
    /\ run_pc' = "running"
    /\ runs' = runs + 1
    /\ prev' = IF run_pc = "done"
               THEN [valid |-> TRUE, clean |-> hist.clean, text |-> hist.text,
                     fetched |-> hist.fetched, seen |-> hist.seen,
                     hash_store |-> hist.hash_store,
                     knowledge_graph |-> hist.knowledge_graph]
               ELSE NoPrev
    /\ hist' = [NoHist EXCEPT !.text = text]
    /\ UNCHANGED <<source, files, vector_store, hash_store, knowledge_graph,
                   edits, faults, chunk_log, ever, agent>>

\* run, line 157, on a processed_pages.pkl that is not a whole pickle:
\* pickle.load raises out of run()
RunStartRaises ==
    /\ run_pc \notin {"running", "crashed"}
    /\ runs < MaxRuns
    /\ processed_file.torn
    /\ run_pc' = "aborted"
    /\ runs' = runs + 1
    /\ prev' = NoPrev
    /\ hist' = [NoHist EXCEPT !.text = text, !.cause = "load", !.clean = FALSE]
    /\ UNCHANGED <<source, files, vector_store, memory, counters, stack, edits,
                   faults, chunk_log, ever, agent>>

\* The process is killed: no frame and no indexer is left
Crash ==
    /\ faults < MaxFaults
    /\ faults' = faults + 1
    /\ stack' = <<>>
    /\ run_pc' = "crashed"
    /\ hist' = [hist EXCEPT !.cause = "crash", !.clean = FALSE]

\* An exception that the visit catches: only the failed call is given up
RaiseCaught(cause) ==
    /\ stack' = SubSeq(stack, 1, Len(stack) - 1)
    /\ run_pc' = run_pc
    /\ hist' = [hist EXCEPT !.cause = cause, !.clean = FALSE]

\* An exception leaves process_page and run: every frame is unwound
Raise(cause) ==
    /\ stack' = <<>>
    /\ run_pc' = "aborted"
    /\ hist' = [hist EXCEPT !.cause = cause, !.clean = FALSE]

\* ---------------------------------------------- NotionIndexer.process_page
\* lines 85-88, the fetch returns a page
GetPageContent ==
    /\ Running("fetch")
    /\ \E page_status \in Statuses, blocks_status \in Statuses :
        /\ ~get_page_content_raises(page_status, blocks_status)
        /\ faults' = faults + Failed(blocks_status)
        /\ faults' <= MaxFaults
        /\ LET id == top.page_id
               content == process_blocks(blocks_status, text[id])
               child_pages == get_child_pages(blocks_status, children[id])
           IN  /\ stack' = SetTop([top EXCEPT
                        !.pc = "check",
                        !.full_content = content,
                        !.child_pages = child_pages,
                        !.page_status = page_status,
                        !.blocks_status = blocks_status])
               /\ total_pages_found' = total_pages_found + Len(child_pages)
               /\ hist' = [hist EXCEPT
                        !.clean = @ /\ blocks_status = OK,
                        !.visits[id] = @ + 1,
                        !.declared = @ \cup {child_pages[k] : k \in DOMAIN child_pages},
                        !.fetched = Put(@, id, content),
                        !.seen = @ \cup {<<id, content>>},
                        !.uncalled = [pr \in Pairs |->
                            IF pr[1] = id
                            THEN @[pr] + Occurrences(child_pages, 1, pr[2])
                            ELSE @[pr]],
                        !.chunked = IF split_text(content) # <<>>
                                    THEN @ \cup {id} ELSE @]
    /\ UNCHANGED <<source, files, vector_store, memory, pages_processed,
                   run_pc, runs, edits, prev, chunk_log, ever, agent>>

\* line 85, the fetch raises: line 101 of the reader
GetPageContentRaises ==
    /\ Running("fetch")
    /\ \E page_status \in Statuses, blocks_status \in Statuses :
        get_page_content_raises(page_status, blocks_status)
    /\ faults < MaxFaults
    /\ faults' = faults + 1
    /\ Raise("fetch")
    /\ UNCHANGED <<source, files, vector_store, memory, counters, runs, edits,
                   prev, chunk_log, ever, agent>>

\* lines 95-96 on the hash store: dict.get gives None for an absent id
IsNewPage(page_id) == page_id \notin DOMAIN hash_store
IsPageModified(page_id, current_hash) ==
    page_id \notin DOMAIN hash_store \/ hash_store[page_id] # current_hash

\* A decision that indexes at every visit
NeedsIndexingAlways(is_already_processed, is_new_page, is_page_modified) == TRUE

\* lines 99-101: the branch that reaches the chunk-and-embed pipeline
NeedsIndexing(is_already_processed, is_new_page, is_page_modified) ==
    ~is_already_processed /\ (is_new_page \/ is_page_modified)

\* A split whose empty result is recorded like an indexed page
AfterSplitRecordsEmpty(chunks) == IF chunks = <<>> THEN "hash" ELSE "delete"

\* lines 104-107: where the pipeline goes after the split
AfterSplit(chunks) == IF chunks = <<>> THEN "graph" ELSE "delete"

\* lines 94-107
Check ==
    /\ Running("check")
    /\ LET id == top.page_id
           is_new_page == IsNewPage(id)
           is_page_modified == IsPageModified(id, md5(top.full_content))
           is_already_processed == id \in processed_pages
       IN  stack' = SetTop([top EXCEPT
                !.is_new_page = is_new_page,
                !.is_page_modified = is_page_modified,
                !.is_already_processed = is_already_processed,
                !.pc = IF NeedsIndexing(is_already_processed, is_new_page,
                                        is_page_modified)
                       THEN AfterSplit(split_text(top.full_content))
                       ELSE "graph"])
    /\ UNCHANGED <<source, files, vector_store, memory, counters, run_pc, runs,
                   edits, faults, hist, prev, chunk_log, ever, agent>>

\* self.vector_store._collection.delete(where={"page_id": page_id})
delete_where(store, page_id) == {d \in store : d[1] # page_id}

\* A failed delete that ends the indexing of the page
AfterDeleteGivesUp(outcome) == IF outcome = "ok" THEN "submit" ELSE "graph"

\* lines 108-113: the except clause swallows every failure of the delete
AfterDelete(outcome) == "submit"

Delete(outcome) ==
    /\ Running("delete")
    /\ vector_store' = IF outcome = "ok"
                       THEN delete_where(vector_store, top.page_id)
                       ELSE vector_store
    /\ stack' = SetTop([top EXCEPT !.deleted = outcome, !.pc = AfterDelete(outcome)])
    /\ hist' = [hist EXCEPT !.deletes[top.page_id] = @ + 1,
                            !.clean = @ /\ outcome = "ok"]
    /\ faults' = IF outcome = "ok" THEN faults ELSE faults + 1
    /\ faults' <= MaxFaults
    /\ UNCHANGED <<source, files, memory, counters, run_pc, runs, edits, prev,
                   chunk_log, ever, agent>>

DeleteOk == Delete("ok")
DeleteFails == Delete("failed")

\* lines 118-121: one executor.submit per chunk, in order
Submit ==
    /\ Running("submit")
    /\ LET chunks == split_text(top.full_content)
           submitted == Append(top.futures, "pending")
       IN  stack' = SetTop([top EXCEPT
                !.futures = submitted,
                !.pc = IF Len(submitted) = Len(chunks) THEN "wait" ELSE "submit"])
    /\ UNCHANGED <<source, files, vector_store, memory, counters, run_pc, runs,
                   edits, faults, hist, prev, chunk_log, ever, agent>>

\* A worker thread runs vector_store.add_texts([chunk], [metadata])
ChunkWrite(j, ok) ==
    /\ run_pc = "running" /\ stack # <<>>
    /\ j \in DOMAIN top.futures
    /\ top.futures[j] = "pending"
    /\ LET id == top.page_id
           chunk == split_text(top.full_content)[j]
       IN  /\ vector_store' = IF ok THEN vector_store \cup {<<id, chunk>>}
                              ELSE vector_store
           /\ stack' = SetTop([top EXCEPT
                    !.futures[j] = IF ok THEN "ok" ELSE "failed"])
           /\ hist' = [hist EXCEPT !.adds[id] = @ + 1, !.clean = @ /\ ok]
           /\ chunk_log' = chunk_log \cup
                    {[page_id |-> id, content |-> top.full_content,
                      j |-> j, ok |-> ok]}
    /\ faults' = IF ok THEN faults ELSE faults + 1
    /\ faults' <= MaxFaults
    /\ UNCHANGED <<source, files, memory, counters, run_pc, runs, edits, prev, ever, agent>>

Submitted == IF stack = <<>> THEN {} ELSE DOMAIN top.futures
ChunkOk == \E j \in Submitted : ChunkWrite(j, TRUE)
ChunkFails == \E j \in Submitted : ChunkWrite(j, FALSE)

\* A wait that does not wait for the futures
AllDoneNoWait(fs) == TRUE

\* lines 116-129: as_completed and the executor's exit wait for every future
AllDone(fs) == \A j \in DOMAIN fs : fs[j] # "pending"

\* lines 125-129: the except clause of the wait loop logs the failure of a
\* chunk write; no attribute of the indexer counts it and process_page
\* returns None, so the failures that a visit counts are none
FailuresCounted(fs) == 0

\* A wait loop that logs nothing
ErrorsLoggedNone(fs) == 0

\* lines 128-129: one logger.error call for every future whose result raises
ErrorsLogged(fs) == Cardinality({j \in DOMAIN fs : fs[j] = "failed"})

\* A hash that is updated only when every chunk write succeeded
AfterWaitOnSuccess(fs) ==
    IF \E j \in DOMAIN fs : fs[j] = "failed" THEN "graph" ELSE "hash"

\* lines 131-132: past the wait loop the hash update follows unconditionally
AfterWait(fs) == "hash"

\* lines 123-131
AsCompleted ==
    /\ Running("wait")
    /\ AllDone(top.futures)
    /\ stack' = SetTop([top EXCEPT
            !.errors_logged = ErrorsLogged(top.futures),
            !.indexed = TRUE,
            !.pc = AfterWait(top.futures)])
    /\ hist' = [hist EXCEPT
            !.indexed = Put(@, top.page_id, md5(top.full_content))]
    /\ UNCHANGED <<source, files, vector_store, memory, counters, run_pc, runs,
                   edits, faults, prev, chunk_log, ever, agent>>

\* Saves that leave the file as it is
save_hash_store_skipped(store) == hash_file
save_processed_pages_skipped(pages) == processed_file

\* pickle.dump of the hash store to hash_store_path
save_hash_store(store) == [exists |-> TRUE, torn |-> FALSE, data |-> store]
\* pickle.dump of the processed set to processed_pages.pkl
save_processed_pages(pages) == [exists |-> TRUE, torn |-> FALSE, data |-> pages]
\* pickle.dump of the graph to knowledge_graph_path
\* A run that ends without writing the graph file
save_knowledge_graph_skipped(graph) == graph_file

save_knowledge_graph(graph) == [exists |-> TRUE, torn |-> FALSE, data |-> graph]

\* lines 132-133
UpdateHash ==
    /\ Running("hash")
    /\ hash_store' = Put(hash_store, top.page_id, md5(top.full_content))
    /\ hash_file' = save_hash_store(hash_store')
    /\ ever' = [ever EXCEPT !.saved_hash_store = Saved(hash_store')]
    /\ stack' = SetTop([top EXCEPT !.pc = "processed"])
    /\ UNCHANGED <<source, processed_file, graph_file, vector_store,
                   processed_pages, knowledge_graph, counters, run_pc, runs,
                   edits, faults, hist, prev, chunk_log, agent>>

\* line 133, the process is killed inside save_hash_store
CrashInSaveHashStore ==
    /\ Running("hash")
    /\ hash_file' = Truncated(EmptyMap)
    /\ Crash
    /\ UNCHANGED <<source, processed_file, graph_file, vector_store, memory,
                   counters, runs, edits, prev, chunk_log, ever, agent>>

\* lines 134-135
UpdateProcessed ==
    /\ Running("processed")
    /\ processed_pages' = processed_pages \cup {top.page_id}
    /\ processed_file' = save_processed_pages(processed_pages')
    /\ ever' = [ever EXCEPT !.saved_processed_pages = Saved(processed_pages')]
    /\ stack' = SetTop([top EXCEPT !.pc = "graph"])
    /\ UNCHANGED <<source, hash_file, graph_file, vector_store, hash_store,
                   knowledge_graph, counters, run_pc, runs, edits, faults, hist, prev,
                   chunk_log, agent>>

\* line 135, the process is killed inside save_processed_pages
CrashInSaveProcessedPages ==
    /\ Running("processed")
    /\ processed_file' = Truncated({})
    /\ Crash
    /\ UNCHANGED <<source, hash_file, graph_file, vector_store, memory,
                   counters, runs, edits, prev, chunk_log, ever, agent>>

\* lines 139-143
UpdateGraph ==
    /\ Running("graph")
    /\ pages_processed' = pages_processed + 1
    /\ knowledge_graph' =
        LET with_node == add_node(knowledge_graph, top.page_id)
        IN  IF top.parent_id # NoParent
            THEN add_edge(with_node, top.parent_id, top.page_id)
            ELSE with_node
    /\ stack' = SetTop([top EXCEPT !.pc = "children"])
    /\ hist' = IF top.parent_id # NoParent
               THEN LET pair == <<top.parent_id, top.page_id>>
                    IN  [hist EXCEPT
                            !.observed = @ \cup {pair},
                            !.reobserved = IF pair \in hist.observed
                                           THEN @ \cup {pair} ELSE @]
               ELSE hist
    /\ UNCHANGED <<source, files, vector_store, hash_store, processed_pages,
                   total_pages_found, run_pc, runs, edits, faults, prev, chunk_log,
                   ever, agent>>

\* Children that are visited only when the page was not already processed
ChildrenToVisitUnlessProcessed(f) ==
    IF f.is_already_processed THEN <<>> ELSE f.child_pages

\* lines 145-148: the loop runs over every child page of the fetched page,
\* whatever branch of lines 99-137 the visit took
ChildrenToVisit(f) == f.child_pages

\* lines 148-150: the recursive call for the next child reference
CallChild ==
    /\ Running("children")
    /\ top.i <= Len(ChildrenToVisit(top))
    /\ Len(stack) < MaxDepth
    /\ stack' = Append(SetTop([top EXCEPT !.i = @ + 1]),
                       Frame(ChildrenToVisit(top)[top.i], top.page_id))
    /\ hist' = [hist EXCEPT
            !.uncalled[<<top.page_id, ChildrenToVisit(top)[top.i]>>] = @ - 1]
    /\ UNCHANGED <<source, files, vector_store, memory, counters, run_pc, runs,
                   edits, faults, prev, chunk_log, ever, agent>>

\* line 150 with the interpreter's stack exhausted: RecursionError
RecursionError ==
    /\ Running("children")
    /\ top.i <= Len(ChildrenToVisit(top))
    /\ Len(stack) >= MaxDepth
    /\ Raise("recursion")
    /\ UNCHANGED <<source, files, vector_store, memory, counters, runs, edits, faults,
                   prev, chunk_log, ever, agent>>

\* the loop of line 148 is over: process_page returns to its caller
Return ==
    /\ Running("children")
    /\ top.i > Len(ChildrenToVisit(top))
    /\ stack' = SubSeq(stack, 1, Len(stack) - 1)
    /\ hist' = [hist EXCEPT !.completed = @ \cup {top.page_id}]
    /\ UNCHANGED <<source, files, vector_store, memory, counters, run_pc, runs,
                   edits, faults, prev, chunk_log, ever, agent>>

\* run, lines 161-163, after process_page(root_page_id) has returned
RunFinish ==
    /\ run_pc = "running"
    /\ stack = <<>>
    /\ graph_file' = save_knowledge_graph(knowledge_graph)
    /\ run_pc' = "done"
    /\ hist' = [hist EXCEPT !.hash_store = hash_store,
                            !.knowledge_graph = knowledge_graph]
    /\ ever' = [ever EXCEPT !.saved_knowledge_graph = Saved(knowledge_graph)]
    /\ UNCHANGED <<source, hash_file, processed_file, vector_store, memory,
                   counters, stack, runs, edits, faults, prev, chunk_log, agent>>

\* line 161, the process is killed inside save_knowledge_graph
CrashInSaveKnowledgeGraph ==
    /\ run_pc = "running"
    /\ stack = <<>>
    /\ graph_file' = Truncated(EmptyGraph)
    /\ Crash
    /\ UNCHANGED <<source, hash_file, processed_file, vector_store, memory,
                   counters, runs, edits, prev, chunk_log, ever, agent>>

\* An indexer constructed with another hash_store_path and another
\* knowledge_graph_path runs in the same working directory: its run() loads
\* 'processed_pages.pkl' (lines 77-79), adds the ids it indexes and saves the
\* set to 'processed_pages.pkl' (lines 70-71); its other two files are at its
\* own paths
OtherIndexerRun ==
    /\ run_pc \notin {"running", "crashed"}
    /\ ever.other_runs < MaxOtherRuns
    /\ ~processed_file.torn
    /\ \E indexed \in SUBSET Nodes :
        /\ indexed # {}
        /\ indexed \cap load_processed_pages(processed_file, {}) = {}
        /\ processed_file' = save_processed_pages(
                load_processed_pages(processed_file, {}) \cup indexed)
    /\ ever' = [ever EXCEPT !.other_runs = @ + 1]
    /\ UNCHANGED <<source, hash_file, graph_file, vector_store, memory, counters,
                   run_pc, stack, runs, edits, faults, hist, prev, chunk_log, agent>>

\* ------------------------------------------- NotionAgentOrchestrator.chat
\* chat_loop, line 100: the 'index' command runs the indexer between two chats
IndexCommand == agent.pc = "idle" /\ RunStart

\* orchestrator lines 77-93: the state of the call, the search agent invoked.
\* An exception of indexer.run() has ended chat_loop, so no chat follows it.
ChatStart ==
    /\ agent.pc = "idle"
    /\ run_pc \in {"idle", "done"}
    /\ agent' = [AgentIdle EXCEPT !.pc = "search"]
    /\ UNCHANGED <<source, files, vector_store, memory, counters, run_pc, stack,
                   runs, edits, faults, hist, prev, chunk_log, ever>>

\* similarity_search(query, k): at most k documents of the store, in any order
SimilaritySearches ==
    {docs \in UNION {[1..n -> vector_store] : n \in 0..TopResults} :
        \A i, j \in DOMAIN docs : docs[i] = docs[j] => i = j}

\* NotionSearchTool._run, lines 42-62: the results as JSON, or the error text
NotionSearchTool_run(failed, docs) ==
    IF failed THEN ErrorText("Error searching Notion")
    ELSE json_dumps([i \in DOMAIN docs |->
                        [page_id |-> docs[i][1], content_preview |-> docs[i][2]]])

\* NotionPageReaderTool._run, lines 78-95: the page as JSON, or the error text
NotionPageReaderTool_run(page_id, page_status, blocks_status) ==
    IF get_page_content_raises(page_status, blocks_status)
    THEN ErrorText("Error reading Notion page")
    ELSE json_dumps([page_id |-> page_id,
                     content |-> process_blocks(blocks_status, text[page_id]),
                     child_pages |-> get_child_pages(blocks_status, children[page_id])])

\* the return value of search_node at lines 63-68
SearchError(a) ==
    [a EXCEPT !.search_results = <<>>, !.notion_context = EmptyMap,
              !.status = "ERROR", !.pc = "chat"]

\* search_node lines 36-39 (and 60-68 when json.loads raises), then lines
\* 96-102 of the orchestrator on the ERROR result
Search ==
    /\ agent.pc = "search"
    /\ \E failed \in BOOLEAN, docs \in SimilaritySearches :
        /\ failed => docs = <<>>
        /\ faults' = faults + (IF failed THEN 1 ELSE 0)
        /\ faults' <= MaxFaults
        /\ LET output == NotionSearchTool_run(failed, docs)
               called == [agent EXCEPT !.search_output = output]
           IN  agent' = IF json_loads_raises(output)
                        THEN SearchError(called)
                        ELSE [called EXCEPT !.search_results = json_loads(output),
                                            !.pc = "read"]
    /\ UNCHANGED <<source, files, vector_store, memory, counters, run_pc, stack,
                   runs, edits, hist, prev, chunk_log, ever>>

\* A page read whose exception is not caught in the loop: the step fails
OnReadErrorFails(a) == SearchError(a)

\* search_node lines 51-52: the exception of a page read is logged and the
\* loop goes on to the next result
OnReadError(a) == a

\* the results that search_node reads: search_results[:3]
ToRead(a) ==
    IF Len(a.search_results) < TopResults THEN Len(a.search_results) ELSE TopResults

\* search_node lines 45-52: the read of the next of the top results
ReadPage ==
    /\ agent.pc = "read"
    /\ Len(agent.reads) < ToRead(agent)
    /\ \E page_status \in Statuses, blocks_status \in Statuses :
        /\ faults' = faults + Failed(page_status) + Failed(blocks_status)
        /\ faults' <= MaxFaults
        /\ LET page_id == agent.search_results[Len(agent.reads) + 1].page_id
               page_content ==
                   NotionPageReaderTool_run(page_id, page_status, blocks_status)
               read == [agent EXCEPT !.reads = Append(@, page_status)]
           IN  agent' =
                   IF json_loads_raises(page_content)
                   THEN OnReadError(read)
                   ELSE [read EXCEPT !.notion_context =
                            Put(@, page_id, json_loads(page_content).content)]
    /\ UNCHANGED <<source, files, vector_store, memory, counters, run_pc, stack,
                   runs, edits, hist, prev, chunk_log, ever>>

\* search_node lines 54-59, then lines 96-102 of the orchestrator
SearchComplete ==
    /\ agent.pc = "read"
    /\ Len(agent.reads) >= ToRead(agent)
    /\ agent' = [agent EXCEPT !.status = "COMPLETE", !.pc = "chat"]
    /\ UNCHANGED <<source, files, vector_store, memory, counters, run_pc, stack,
                   runs, edits, faults, hist, prev, chunk_log, ever>>

\* orchestrator lines 106-124: the chat agent returns a last message with a
\* content, or nothing usable, or raises; chat() returns a string in each case
Reply(outcome) ==
    CASE outcome = "content" -> "final_message.content"
      [] outcome = "empty" -> "I apologize, but I couldn't process your request properly."
      [] outcome = "raises" -> "I encountered an error while processing your request"

ChatAgentInvoke ==
    /\ agent.pc = "chat"
    /\ \E outcome \in {"content", "empty", "raises"} :
        /\ faults' = faults + (IF outcome = "raises" THEN 1 ELSE 0)
        /\ faults' <= MaxFaults
        /\ agent' = [agent EXCEPT !.chat_agent_invoked = TRUE,
                                  !.reply = Reply(outcome),
                                  !.pc = "returned"]
    /\ UNCHANGED <<source, files, vector_store, memory, counters, run_pc, stack,
                   runs, edits, hist, prev, chunk_log, ever>>

\* chat_loop lines 111-112: the reply is printed and the call is over
ChatReturn ==
    /\ agent.pc = "returned"
    /\ agent' = AgentIdle
    /\ UNCHANGED <<source, files, vector_store, memory, counters, run_pc, stack,
                   runs, edits, faults, hist, prev, chunk_log, ever>>

Next ==
    \/ Construct
    \/ ConstructRaises
    \/ RunStartRaises
    \/ CrashInSaveHashStore
    \/ CrashInSaveProcessedPages
    \/ CrashInSaveKnowledgeGraph
    \/ Edit
    \/ RunStart
    \/ GetPageContent
    \/ GetPageContentRaises
    \/ Check
    \/ DeleteOk
    \/ DeleteFails
    \/ Submit
    \/ ChunkOk
    \/ ChunkFails
    \/ AsCompleted
    \/ UpdateHash
    \/ UpdateProcessed
    \/ UpdateGraph
    \/ CallChild
    \/ RecursionError
    \/ Return
    \/ RunFinish

Spec == Init /\ [][Next]_vars

\* The indexer together with a second indexer that is configured with other
\* paths
SpecTwoIndexers == Init /\ [][Next \/ OtherIndexerRun]_vars

\* The steps of a run() call in progress: the driver thread executes its next
\* statement, a request is answered, a worker thread finishes a chunk write
RunStep ==
    \/ GetPageContent
    \/ GetPageContentRaises
    \/ Check
    \/ DeleteOk
    \/ DeleteFails
    \/ Submit
    \/ ChunkOk
    \/ ChunkFails
    \/ AsCompleted
    \/ UpdateHash
    \/ UpdateProcessed
    \/ UpdateGraph
    \/ CallChild
    \/ Return
    \/ RunFinish

\* The indexer on a source that is a tree and is not edited, in a process
\* that is not killed: a run in progress keeps taking steps
InitTree == InitOn(Trees)
NextTree == Construct \/ RunStart \/ RunStep
SpecTree == InitTree /\ [][NextTree]_vars /\ WF_vars(RunStep)

\* The chat loop on a tree source: 'index' commands and chats, one at a time
NextAgent ==
    \/ IndexCommand
    \/ RunStep
    \/ ChatStart
    \/ Search
    \/ ReadPage
    \/ SearchComplete
    \/ ChatAgentInvoke
    \/ ChatReturn

SpecAgent == InitTree /\ [][NextAgent]_vars

\* ------------------------------------------------------------- properties
Frames == {stack[k] : k \in DOMAIN stack}
\* the frames that are past the indexing decision of lines 94-137
Decided(f) == f.pc \in {"graph", "children"}
\* the frames whose pipeline is over (line 131 reached)
PipelineOver(f) == f.pc \in {"hash", "processed", "graph", "children"}
\* the contents that the fetches of a run returned for a node
SeenOf(h, n) == {c \in Contents : <<n, c>> \in h.seen}
Persisted(n, fingerprint) ==
    /\ hash_file.exists
    /\ n \in DOMAIN hash_file.data
    /\ hash_file.data[n] = fingerprint
    /\ processed_file.exists
    /\ n \in processed_file.data

\* C1: in every visit, a change decision of Unseen or Modified on a content
\* with at least one chunk runs the chunk-and-embed pipeline in that visit,
\* whether or not the id is in the processed-page set.
C1_ChangedContentIsIndexed ==
    \A f \in Frames :
        (/\ Decided(f)
         /\ (f.is_new_page \/ f.is_page_modified)
         /\ split_text(f.full_content) # <<>>) => f.indexed

\* C2: a node fetched in two consecutive completed runs with different
\* fullText has, after the second run, the fingerprint of the new text in the
\* hash store, and it differs from the one after the first run.  Stated for
\* the case that rests on the change detection alone: no request to the
\* source or to the embedding store failed in either run, and the new text
\* has at least one chunk.
C2_ChangedTextChangesFingerprint ==
    (run_pc = "done" /\ prev.valid /\ prev.clean /\ hist.clean) =>
        \A n \in DOMAIN hist.fetched \cap DOMAIN prev.fetched :
            (/\ hist.fetched[n] # prev.fetched[n]
             /\ split_text(hist.fetched[n]) # <<>>) =>
                /\ n \in DOMAIN hist.hash_store
                /\ hist.hash_store[n] = md5(hist.fetched[n])
                /\ n \in DOMAIN prev.hash_store =>
                        hist.hash_store[n] # prev.hash_store[n]

\* C3: two runs completed in a row on an unchanged source leave the same hash
\* store and the same graph, and the second run sends no delete and no add to
\* the embedding store.
C3_RunIsIdempotent ==
    (run_pc = "done" /\ prev.valid /\ hist.text = prev.text) =>
        /\ hist.hash_store = prev.hash_store
        /\ hist.knowledge_graph = prev.knowledge_graph
        /\ \A n \in Nodes : hist.deletes[n] = 0 /\ hist.adds[n] = 0

\* C4 (as claimed): every id of the hash store with fingerprint h has had at
\* least one chunk of a content with fingerprint h written successfully to the
\* embedding store.
C4_HashImpliesEmbedded ==
    \A n \in DOMAIN hash_store :
        \E r \in chunk_log :
            r.page_id = n /\ r.ok /\ md5(r.content) = hash_store[n]

\* C4 (amended): every id of the hash store, in memory and on file, with
\* fingerprint h has had every chunk of a content with fingerprint h submitted
\* to the embedding store and its write finished, successfully or not.
C4_HashImpliesSubmitted ==
    \A store \in {hash_store, hash_file.data} :
        \A n \in DOMAIN store :
            \E c \in Contents :
                /\ md5(c) = store[n]
                /\ split_text(c) # <<>>
                /\ \A j \in DOMAIN split_text(c) :
                    \E r \in chunk_log :
                        r.page_id = n /\ r.content = c /\ r.j = j

C4_Witness ==
    \E n \in DOMAIN hash_store :
        \A r \in chunk_log : r.page_id = n => ~r.ok

\* C5: whenever the driver is about to fetch a node, every node indexed so far
\* in this run is recorded, with its fingerprint, in the hash-store file and
\* in the processed-set file; so both writes for N precede the fetch of any
\* child and of any later sibling of N.
C5_PersistedBeforeNextFetch ==
    Running("fetch") =>
        \A n \in DOMAIN hist.indexed : Persisted(n, hist.indexed[n])

C5_Witness ==
    /\ Running("fetch")
    /\ top.parent_id \in DOMAIN hist.indexed
    /\ hist.completed \cap DOMAIN hist.indexed # {}

\* C6: after a run aborted by a fatal error, every node whose visit completed
\* before the failure and that was indexed has its fingerprint in the
\* hash-store file and its id in the processed-set file.
C6_AbortKeepsCompletedWork ==
    run_pc = "aborted" =>
        \A n \in hist.completed \cap DOMAIN hist.indexed :
            Persisted(n, hist.indexed[n])

C6_Witness ==
    /\ run_pc = "aborted"
    /\ hist.cause = "fetch"
    /\ hist.completed \cap DOMAIN hist.indexed # {}

\* C7: a node is returned as fetched only when both of its requests, the one
\* for its properties and the one for its child blocks, answered 200.
C7_FetchedOnlyOnSuccess ==
    \A f \in Frames :
        f.pc # "fetch" => f.page_status = OK /\ f.blocks_status = OK

\* C8: in a completed run, the root and every id declared as a child by a
\* fetched node is visited exactly once.
C8_VisitedExactlyOnce ==
    run_pc = "done" =>
        \A n \in {Root} \cup hist.declared : hist.visits[n] = 1

\* C9: the traversal never re-enters an (id, parent) pair that is already on
\* its current path, and a run never ends by exhausting the recursion depth.
C9_NoReentryOnPath ==
    /\ \A k1, k2 \in DOMAIN stack :
        (/\ stack[k1].page_id = stack[k2].page_id
         /\ stack[k1].parent_id = stack[k2].parent_id) => k1 = k2
    /\ hist.cause # "recursion"

\* C10: a chunk write is submitted only after the delete-by-page-id request of
\* the visit has returned, and a visit whose delete failed still submits and
\* awaits every chunk write of the page.
C10_DeleteBeforeWrites ==
    \A f \in Frames :
        /\ f.futures # <<>> => f.deleted # "no"
        /\ (f.deleted # "no" /\ f.pc \notin {"delete", "submit", "wait"}) =>
                /\ f.indexed
                /\ Len(f.futures) = Len(split_text(f.full_content))
                /\ AllDone(f.futures)

C10_Witness ==
    \E f \in Frames :
        /\ f.deleted = "failed"
        /\ PipelineOver(f)
        /\ \E j \in DOMAIN f.futures : f.futures[j] = "ok"

C12_HashOnSubmission ==
    \A f \in Frames :
        (f.indexed /\ Decided(f)) =>
            /\ split_text(f.full_content) # <<>>
            /\ f.page_id \in DOMAIN hash_store
            /\ hash_store[f.page_id] = md5(f.full_content)
            /\ f.page_id \in processed_pages

C12_Witness ==
    \E f \in Frames :
        /\ f.indexed
        /\ Decided(f)
        /\ Len(f.futures) = 2
        /\ \A j \in DOMAIN f.futures : f.futures[j] = "failed"

\* C13: every (parent, child) pair observed in the current run is an edge of
\* the graph (a DiGraph holds an edge at most once), and adding again any
\* node or any edge of the graph leaves its nodes and its edges as they are.
C13_EdgeOncePerPair ==
    /\ run_pc = "running" => hist.observed \subseteq knowledge_graph.edges
    /\ run_pc = "done" => hist.observed \subseteq hist.knowledge_graph.edges
    /\ \A n \in knowledge_graph.nodes :
            add_node(knowledge_graph, n) = knowledge_graph
    /\ \A e \in knowledge_graph.edges :
            add_edge(knowledge_graph, e[1], e[2]) = knowledge_graph

C13_Witness ==
    /\ run_pc = "done"
    /\ hist.reobserved # {}
    /\ prev.valid
    /\ hist.observed \cap prev.knowledge_graph.edges # {}

\* C14: after any sequence of runs and restarts, every node whose visit
\* completed in a run is a node of the graph of the indexer and every
\* (parent, child) pair reached in a run is an edge of it, and every edge is a
\* child reference of the source.  Stated for the runs that the history
\* holds: the current or most recent run and the completed run before it.
C14_GraphHoldsEveryVisit ==
    /\ hist.completed \subseteq knowledge_graph.nodes
    /\ hist.observed \subseteq knowledge_graph.edges
    /\ prev.valid =>
            /\ prev.knowledge_graph.nodes \subseteq knowledge_graph.nodes
            /\ prev.knowledge_graph.edges \subseteq knowledge_graph.edges
    /\ \A e \in knowledge_graph.edges :
            \E k \in DOMAIN children[e[1]] : children[e[1]][k] = e[2]

\* C14 (amended): the same holds whenever no restart has followed a run that
\* did not complete: the graph is written to its file only at the end of a
\* completed run (line 161), so a restart after an aborted or interrupted run
\* loads the graph of the last completed run.  A restart resets
\* total_pages_found to 0, a run sets it to 1 or more.
C14_GraphHoldsSavedVisits ==
    (\/ run_pc \in {"running", "done"}
     \/ run_pc = "aborted" /\ total_pages_found >= 1)
        => C14_GraphHoldsEveryVisit

\* A completed run has been followed by a restart and the graph loaded from
\* the file holds the visited nodes and a reached pair.
C14_Witness ==
    /\ run_pc = "done"
    /\ total_pages_found = 0
    /\ hist.completed # {}
    /\ hist.observed # {}
    /\ C14_GraphHoldsEveryVisit

\* C15: a visit whose content splits into zero chunks does not index: it
\* sends no delete and submits no write, and leaves the hash entry and the
\* processed-set membership of its id as they were; it goes on to the graph
\* update (node and parent edge) and to its children.  After a completed
\* first run the keys of the hash store are exactly the visited ids whose
\* fetched content had at least one chunk.
C15_ZeroChunksIsNoOp ==
    /\ \A f \in Frames :
        (f.pc \notin {"fetch", "check"} /\ split_text(f.full_content) = <<>>) =>
            /\ Decided(f)
            /\ ~f.indexed
            /\ f.deleted = "no"
            /\ f.futures = <<>>
            /\ f.pc = "children" =>
                    /\ f.page_id \in knowledge_graph.nodes
                    /\ f.parent_id # NoParent =>
                            <<f.parent_id, f.page_id>> \in knowledge_graph.edges
    /\ (Running("graph") /\ split_text(top.full_content) = <<>>) =>
            /\ top.is_new_page => top.page_id \notin DOMAIN hash_store
            /\ ~top.is_already_processed => top.page_id \notin processed_pages
    /\ run_pc = "done" => \A n \in hist.declared : hist.visits[n] >= 1
    /\ (run_pc = "done" /\ runs = 1) => DOMAIN hist.hash_store = hist.chunked

C15_Witness ==
    /\ run_pc = "done"
    /\ runs = 1
    /\ hist.clean
    /\ "B" \in DOMAIN hist.fetched
    /\ "B" \in knowledge_graph.nodes
    /\ "B" \notin DOMAIN hash_store
    /\ DOMAIN hash_store = {"root", "A"}

C17_SaveIsAtomic ==
    /\ ~hash_file.torn
    /\ ~processed_file.torn
    /\ ~graph_file.torn
    /\ hist.cause # "load"

\* C18: what a fresh indexer holds after its loads is what was saved at its
\* paths: the constructor gives it the hash store and the graph that the
\* indexer configured with these paths saved last, and the load of run()
\* gives it the processed set that this indexer saved last.
C18_RoundTrip ==
    [][/\ Construct =>
            /\ ever.saved_hash_store.valid =>
                    hash_store' = ever.saved_hash_store.data
            /\ ever.saved_knowledge_graph.valid =>
                    knowledge_graph' = ever.saved_knowledge_graph.data
       /\ (RunStart /\ processed_pages = {}) =>
            (ever.saved_processed_pages.valid =>
                    processed_pages' = ever.saved_processed_pages.data)]_vars

\* C19: a chunk write is in flight only for the node of the running visit
\* and only while that visit is between its first submit and the end of its
\* wait: never when the visit is at its hash update, its processed-set
\* update, its graph update or its children, never for a node whose visit is
\* suspended below another one, and never while a fetch is made.
C19_FanOutFanIn ==
    \A k \in DOMAIN stack :
        (\E j \in DOMAIN stack[k].futures : stack[k].futures[j] = "pending") =>
            /\ k = Len(stack)
            /\ stack[k].pc \in {"submit", "wait"}

C19_Witness ==
    /\ Running("wait")
    /\ Len(stack) >= 2
    /\ Len(top.futures) = 2
    /\ \A j \in DOMAIN top.futures : top.futures[j] = "pending"
    /\ \E k \in DOMAIN stack : k < Len(stack) /\ stack[k].futures # <<>>

\* the child references of the visits in progress that are still to be called
RECURSIVE RemainingOnStack(_, _)
RemainingOnStack(pr, k) ==
    IF k = 0 THEN 0
    ELSE RemainingOnStack(pr, k - 1) +
         (IF stack[k].page_id = pr[1]
          THEN Occurrences(stack[k].child_pages, stack[k].i, pr[2])
          ELSE 0)

C21_FetchErrorEndsTheRun ==
    [][/\ hist'.cause = "fetch" => (run_pc' = "aborted" /\ stack' = <<>>)
       /\ (hist.cause # "fetch" /\ hist'.cause = "fetch") =>
            UNCHANGED <<memory, files, vector_store, chunk_log, counters>>
       /\ (hist.cause = "fetch" /\ hist'.cause = "fetch" /\ ~Construct) =>
            UNCHANGED <<memory, files, vector_store, chunk_log, counters,
                        stack, hist, run_pc>>]_vars

\* The fetch of A failed after root was indexed: B, the sibling of A, was
\* never fetched
C21_Witness ==
    /\ run_pc = "aborted"
    /\ hist.cause = "fetch"
    /\ "root" \in DOMAIN hist.indexed
    /\ hist.uncalled[<<"root", "B">>] = 1
    /\ "B" \notin DOMAIN hist.fetched
    /\ edits = 1

\* the visits past their decision whose decision was Unchanged: the id had a
\* stored fingerprint and it equals the fingerprint of the fetched content
UnchangedVisit(f) ==
    f.pc \notin {"fetch", "check"} /\ ~f.is_new_page /\ ~f.is_page_modified

\* C22: a visit whose stored fingerprint equals the fresh one goes from its
\* decision straight to the graph update: it sends no delete, submits no
\* chunk write and indexes nothing, and every step it takes leaves the hash
\* store, the processed set, their two files and the embedding store as
\* they are; its graph step upserts its node and its parent edge and counts
\* the page, after which it is at the loop over its children.
C22_UnchangedVisitFrame ==
    [][/\ \A f \in Frames' :
            UnchangedVisit(f) =>
                Decided(f) /\ ~f.indexed /\ f.deleted = "no" /\ f.futures = <<>>
       /\ (/\ Running("check")
           /\ top.page_id \in DOMAIN hash_store
           /\ hash_store[top.page_id] = md5(top.full_content)) =>
                /\ Len(stack') = Len(stack)
                /\ UnchangedVisit(top')
                /\ top'.pc = "graph"
       /\ (run_pc = "running" /\ stack # <<>> /\ UnchangedVisit(top)) =>
                /\ UNCHANGED <<hash_store, processed_pages, hash_file,
                               processed_file, vector_store, chunk_log>>
                /\ top.pc = "graph" =>
                        /\ top.page_id \in knowledge_graph'.nodes
                        /\ knowledge_graph.nodes \subseteq knowledge_graph'.nodes
                        /\ knowledge_graph'.nodes \subseteq
                                knowledge_graph.nodes \cup {top.page_id, top.parent_id}
                        /\ knowledge_graph'.edges =
                                knowledge_graph.edges \cup
                                    (IF top.parent_id # NoParent
                                     THEN {<<top.parent_id, top.page_id>>} ELSE {})
                        /\ pages_processed' = pages_processed + 1
                        /\ top'.pc = "children"
                /\ top.pc = "children" =>
                        UNCHANGED <<knowledge_graph, counters>>]_vars

\* In a second run the root is unchanged, its visit has updated the graph
\* and has called its two children
C22_Witness ==
    /\ run_pc = "running"
    /\ runs = 2
    /\ stack # <<>>
    /\ UnchangedVisit(stack[1])
    /\ stack[1].pc = "children"
    /\ stack[1].i = 3
    /\ split_text(stack[1].full_content) # <<>>

\* C23: the hash-store file and the processed-set file are written by the
\* visits that indexed their node, and by no other step of a run: past its
\* two saves an indexing visit has its fingerprint in the one file and its id
\* in the other.  The graph file is written by one step of a run only, the
\* one that follows the return of the visit of the root and ends the run; a
\* run that an error aborts has left the graph file as it was when the run
\* started (the graph of the completed run before it, or no file).
C23_SaveCadence ==
    [][/\ (hash_file' # hash_file) =>
            /\ Running("hash") /\ top.indexed
            /\ hash_file'.torn \/
                    /\ top.page_id \in DOMAIN hash_file'.data
                    /\ hash_file'.data[top.page_id] = md5(top.full_content)
       /\ (processed_file' # processed_file) =>
            /\ Running("processed") /\ top.indexed
            /\ processed_file'.torn \/ top.page_id \in processed_file'.data
       /\ \A f \in Frames' :
            (f.indexed /\ Decided(f)) =>
                Persisted(f.page_id, md5(f.full_content))'
       /\ (graph_file' # graph_file) =>
            /\ run_pc = "running" /\ stack = <<>>
            /\ Root \in hist.completed
            /\ run_pc' \in {"done", "crashed"}
       /\ (run_pc = "running" /\ run_pc' = "done") =>
            /\ stack = <<>>
            /\ graph_file' = [exists |-> TRUE, torn |-> FALSE,
                              data |-> knowledge_graph]
       /\ (run_pc' \in {"running", "aborted"} /\ prev'.valid) =>
            graph_file' = [exists |-> TRUE, torn |-> FALSE,
                          data |-> prev'.knowledge_graph]
       /\ (run_pc' \in {"running", "aborted"} /\ runs' = 1) =>
            ~graph_file'.exists]_vars

\* A second run has indexed a node and was aborted by a failed fetch: its
\* graph in memory has grown, the graph file is the one of the first run
C23_Witness ==
    /\ run_pc = "aborted"
    /\ hist.cause = "fetch"
    /\ runs = 2
    /\ prev.valid
    /\ DOMAIN hist.indexed # {}
    /\ total_pages_found >= 1
    /\ knowledge_graph # graph_file.data
    /\ graph_file.data = prev.knowledge_graph

\* the chunk writes of the running visit that have finished, when it is a
\* visit of n
FinishedWrites(n) ==
    IF stack # <<>> /\ top.page_id = n
    THEN Cardinality({j \in DOMAIN top.futures : top.futures[j] # "pending"})
    ELSE 0

\* C24: in a run, every page id gets at most one delete request, and the
\* chunk writes made for it are those of one batch: one write per chunk of
\* one content that a fetch of the id returned, also when the id is visited
\* several times in the run.
C24_OneBatchPerRun ==
    \A n \in Nodes :
        /\ hist.deletes[n] <= 1
        /\ hist.adds[n] > 0 => hist.deletes[n] = 1
        /\ n \in DOMAIN hist.indexed =>
                \E c \in SeenOf(hist, n) :
                    /\ md5(c) = hist.indexed[n]
                    /\ hist.adds[n] = Len(split_text(c))
        /\ n \notin DOMAIN hist.indexed => hist.adds[n] = FinishedWrites(n)

\* A completed run visited A twice and made one delete and one batch of two
\* writes for it
C24_Witness ==
    /\ run_pc = "done"
    /\ hist.visits["A"] = 2
    /\ hist.deletes["A"] = 1
    /\ hist.adds["A"] = 2

\* the ids that a load of a file returns: none when the file does not exist
\* or is not a whole pickle
PersistedProcessed == IF processed_file.exists THEN processed_file.data ELSE {}
PersistedHashKeys == IF hash_file.exists THEN DOMAIN hash_file.data ELSE {}

\* C25: at every point of every run and after every kill of the process, the
\* ids of the processed-set file are keys of the hash-store file, and the
\* processed set in memory is a subset of the keys of the hash store in
\* memory.
C25_ProcessedWithinHashed ==
    /\ PersistedProcessed \subseteq PersistedHashKeys
    /\ processed_pages \subseteq DOMAIN hash_store

\* the chunks that the embedding store holds for a page id, and the chunks
\* of a visit whose write succeeded
StoredChunks(store, page_id) == {d[2] : d \in {e \in store : e[1] = page_id}}
SucceededChunks(f) ==
    {split_text(f.full_content)[j] :
        j \in {k \in DOMAIN f.futures : f.futures[k] = "ok"}}

\* C26: the chunk writes of a node complete in any order and any of them may
\* fail, and none of it reaches the durable outcome: a step of the pipeline
\* between the delete and the end of the wait changes neither the hash
\* store, the processed set, the graph nor a file; the wait always goes on
\* to the hash update; the hash update, the processed-set update and the
\* graph update are functions of the id, the parent and the fetched content
\* alone; and once the wait is over the chunks stored for the id are exactly
\* the chunks whose write succeeded.
C26_OutcomeIgnoresInterleaving ==
    [][/\ (run_pc = "running" /\ stack # <<>>
             /\ top.pc \in {"delete", "submit", "wait"}) =>
                /\ UNCHANGED <<memory, files>>
                /\ run_pc' = "running" /\ Len(stack') = Len(stack)
                /\ top.pc = "wait" /\ top'.pc # "wait" => top'.pc = "hash"
       /\ (Running("hash") /\ run_pc' = "running") =>
                /\ hash_store' = Put(hash_store, top.page_id, md5(top.full_content))
                /\ top'.pc = "processed"
       /\ (Running("processed") /\ run_pc' = "running") =>
                /\ processed_pages' = processed_pages \cup {top.page_id}
                /\ top'.pc = "graph"
       /\ Running("graph") =>
                knowledge_graph' =
                    IF top.parent_id # NoParent
                    THEN add_edge(add_node(knowledge_graph, top.page_id),
                                  top.parent_id, top.page_id)
                    ELSE add_node(knowledge_graph, top.page_id)
       /\ \A f \in Frames' :
            (PipelineOver(f) /\ f.futures # <<>>) =>
                StoredChunks(vector_store', f.page_id) = SucceededChunks(f)]_vars

\* The first of the two chunk writes of A failed and the second succeeded:
\* the store holds the second chunk only, A is in the hash store, in the
\* processed set and in the graph
C26_Witness ==
    \E f \in Frames :
        /\ f.pc = "children"
        /\ f.futures = <<"failed", "ok">>
        /\ StoredChunks(vector_store, f.page_id) = {"long[800:]"}
        /\ f.page_id \in DOMAIN hash_store
        /\ f.page_id \in processed_pages
        /\ f.page_id \in knowledge_graph.nodes

\* every fetch of the run returned the text and the child references of its
\* page (no request of the run failed)
EveryFetchFaithful(h) ==
    \A n \in DOMAIN h.fetched :
        /\ h.fetched[n] = h.text[n]
        /\ \A k \in DOMAIN children[n] : children[n][k] \in h.declared

\* C27: on a source that is a tree, a run that has started ends: it completes
\* unless a fetch fails.  A run that completes has processed as many pages as
\* it found (the root and every child reference it discovered), has saved the
\* graph it returns, and, when no fetch failed, has visited every node of the
\* tree once.
C27_TreeRunTerminates ==
    /\ (run_pc = "running") ~> (run_pc = "done" \/ hist.cause = "fetch")
    /\ [][(run_pc = "running" /\ run_pc' = "done") =>
            /\ pages_processed' = total_pages_found'
            /\ pages_processed' = 1 + Cardinality(hist.observed)
            /\ graph_file' = [exists |-> TRUE, torn |-> FALSE,
                              data |-> knowledge_graph']
            /\ EveryFetchFaithful(hist) =>
                    /\ \A n \in Nodes : hist.visits[n] = 1
                    /\ hist.completed = Nodes
                    /\ knowledge_graph'.nodes = Nodes
                    /\ pages_processed' = Cardinality(Nodes)]_vars

\* A completed run on the chain: three pages found and processed, the graph
\* of three nodes saved
C27_Witness ==
    /\ run_pc = "done"
    /\ children = Chain
    /\ EveryFetchFaithful(hist)
    /\ pages_processed = 3
    /\ total_pages_found = 3
    /\ graph_file.data.nodes = Nodes
    /\ graph_file.data.edges = {<<"root", "A">>, <<"A", "B">>}

\* the top results whose page read returned a page
ReadablePages(a) ==
    {a.search_results[i].page_id :
        i \in {k \in 1..ToRead(a) : a.reads[k] = OK}}

\* C28: the search step of a chat never raises and ends in one of two
\* outcomes: COMPLETE, with the results parsed from the output of the search
\* tool and a context whose pages are exactly the top results that could be
\* read; or ERROR, when the search failed, with no result and an empty
\* context.  After either outcome the chat agent is invoked and chat()
\* returns a string.
C28_SearchStepOutcomes ==
    /\ agent.pc \in {"idle", "search", "read", "chat", "returned"}
    /\ agent.pc \in {"chat", "returned"} =>
        \/ /\ agent.status = "COMPLETE"
           /\ ~json_loads_raises(agent.search_output)
           /\ agent.search_results = json_loads(agent.search_output)
           /\ Len(agent.reads) = ToRead(agent)
           /\ DOMAIN agent.notion_context = ReadablePages(agent)
        \/ /\ agent.status = "ERROR"
           /\ json_loads_raises(agent.search_output)
           /\ agent.search_results = <<>>
           /\ agent.notion_context = EmptyMap
    /\ agent.pc = "returned" =>
        /\ agent.chat_agent_invoked
        /\ agent.reply \in {Reply(outcome) : outcome \in {"content", "empty", "raises"}}

\* The search gave three results, the read of the first one failed and the
\* others were read: the step is COMPLETE, the context lacks the first page,
\* and chat() has returned the reply of the chat agent
C28_Witness ==
    /\ agent.pc = "returned"
    /\ agent.status = "COMPLETE"
    /\ Len(agent.search_results) = 3
    /\ agent.reads = <<ServerError, OK, OK>>
    /\ agent.search_results[1].page_id \notin DOMAIN agent.notion_context
    /\ DOMAIN agent.notion_context # {}
    /\ agent.reply = Reply("content")

====
